---- MODULE Spec2Model ----
(***************************************************************************)
(* A model of veille-complete.py: the fetch helper safe_get, the           *)
(* relevance rules of the two extractors, the extractors over a source,    *)
(* dedupe_and_new_only, sort_prioritaires_first, chunk_telegram, the seen  *)
(* store (_load_seen / _save_seen), the archive of the day and the         *)
(* orchestration executer_veille, run once, run again, and run twice side  *)
(* by side.  Of the older veille-stages.py the model has the filter        *)
(* filtrer_nouvelles_offres.                                               *)
(*                                                                         *)
(* Strings that the code inspects character by character (links) are       *)
(* sequences of one-character strings; texts that the code only searches   *)
(* for terms are sequences of words.                                       *)
(***************************************************************************)
EXTENDS Integers, Sequences, FiniteSets, TLC

VARIABLES
    \* dedupe_and_new_only called on its own
    dpc, offres, seen_arg, nouveaux, nouveaux2,
    \* safe_get called on its own
    gpc, max_retries, attempt, err, gets, sleeps, resp, raised,
    \* one feed entry or one container node put through its extractor
    cpc, kind, item, source, verdict,
    \* the files, the environment and the sources, as the runs find them
    seen_file, env, world,
    \* one run of the script: VeilleStagesComplete() and executer_veille()
    pc, seen, src_i, toutes, nouvelles, archive, posts, deliveries, visited, fetches,
    \* what the run did to the seen store and to the archive of the day
    loaded, loads, saves, written, save_outcome, archived, archive_outcome,
    \* history of the earlier runs
    ever_new, writes_ok, same_content,
    \* one source put through its extractor, the fetch included
    xpc, xkind, xsrc, xitems, xoffres,
    \* chunk_telegram called on its own
    kpc, chunk_text, limit, parts,
    \* sort_prioritaires_first called on its own
    spc, sort_in, sort_out,
    \* the result list of a run, for a candidate list and for its twin
    fpc, script, cands_plain, probe, seen_f, result_plain, result_twin,
    \* two runs of the script started side by side on one seen store
    rpc, rfile, rcands, rseen, radded, rwrites_ok, overlap

dedupeVars == <<dpc, offres, seen_arg, nouveaux, nouveaux2>>
getVars == <<gpc, max_retries, attempt, err, gets, sleeps, resp, raised>>
classVars == <<cpc, kind, item, source, verdict>>
worldVars == <<seen_file, env, world>>
runVars ==
    <<pc, seen, src_i, toutes, nouvelles, archive, posts, deliveries, visited, fetches>>
storeVars == <<loaded, loads, saves, written, save_outcome, archived, archive_outcome>>
histVars == <<ever_new, writes_ok, same_content>>
pipeVars == <<worldVars, runVars, storeVars, histVars>>
sourceVars == <<xpc, xkind, xsrc, xitems, xoffres>>
chunkVars == <<kpc, chunk_text, limit, parts>>
sortVars == <<spc, sort_in, sort_out>>
filterVars == <<fpc, script, cands_plain, probe, seen_f, result_plain, result_twin>>
raceVars == <<rpc, rfile, rcands, rseen, radded, rwrites_ok, overlap>>
vars ==
    <<dedupeVars, getVars, classVars, pipeVars, sourceVars, chunkVars, sortVars, filterVars,
      raceVars>>

(***************************************************************************)
(* Bounds of the model.                                                    *)
(***************************************************************************)
MaxCand == 3
MaxRetriesArg == 3
MaxWords == 1

SeqsUpTo(S, n) == UNION {[1..k -> S] : k \in 0..n}

(***************************************************************************)
(* str.strip(): leading and trailing whitespace removed.                   *)
(***************************************************************************)
IsSpace(c) == c = " "

RECURSIVE LStrip(_)
LStrip(s) ==
    IF s = <<>> THEN s
    ELSE IF IsSpace(Head(s)) THEN LStrip(Tail(s)) ELSE s

RECURSIVE RStrip(_)
RStrip(s) ==
    IF s = <<>> THEN s
    ELSE IF IsSpace(s[Len(s)]) THEN RStrip(SubSeq(s, 1, Len(s) - 1)) ELSE s

Strip(s) == RStrip(LStrip(s))

(***************************************************************************)
(* Links: the empty link, a blank link, two plain links and padded         *)
(* variants of the first.                                                  *)
(***************************************************************************)
LinkA == <<"a">>
LinkB == <<"b">>
LinkPool == {<<>>, <<" ">>, LinkA, <<" ", "a">>, LinkB}

\* A posting as dedupe_and_new_only reads it: the link, and the title that
\* tells two postings with the same link apart.
CandPool == [lien : LinkPool, titre : {"t1", "t2"}]

SeenArgPool == SUBSET {LinkA, <<" ", "a">>, LinkB}

(***************************************************************************)
(* dedupe_and_new_only (lines 580-590).                                    *)
(***************************************************************************)
\* key = o["lien"].strip()
DedupeKey(o) == Strip(o.lien)

\* faulty variant: no candidate is skipped as a duplicate
SkipCandidateNoUniques(key, uniques) == key = <<>>

\* if not key or key in uniques: continue
SkipCandidate(key, uniques) == key = <<>> \/ key \in uniques

\* faulty variant: the seen set is not consulted
IsNewLinkAlways(key, vus) == TRUE

\* if key not in self.seen: nouveaux.append(o)
IsNewLink(key, vus) == key \notin vus

RECURSIVE DedupeLoop(_, _, _, _)
DedupeLoop(rest, vus, uniques, acc) ==
    IF rest = <<>> THEN acc
    ELSE LET o == Head(rest)
             key == DedupeKey(o)
         IN  IF SkipCandidate(key, uniques)
             THEN DedupeLoop(Tail(rest), vus, uniques, acc)
             ELSE DedupeLoop(Tail(rest), vus, uniques \cup {key},
                             IF IsNewLink(key, vus) THEN Append(acc, o) ELSE acc)

dedupe_and_new_only(cands, vus) == DedupeLoop(cands, vus, {}, <<>>)

\* faulty variant: the links of the candidates are added to the seen set
SeenAfterDedupeAdds(cands, vus) == vus \cup {DedupeKey(cands[i]) : i \in 1..Len(cands)}

\* self.seen after the call: the function reads it (line 587) and has no
\* statement that writes it
SeenAfterDedupe(cands, vus) == vus

\* faulty variant: the candidates are stripped in place
OffresAfterDedupeStripped(cands) ==
    [i \in 1..Len(cands) |-> [cands[i] EXCEPT !.lien = Strip(@)]]

\* the list and its postings after the call: the function reads them
\* (lines 582-583) and appends the postings themselves to its own list
OffresAfterDedupe(cands) == cands

(***************************************************************************)
(* safe_get (lines 38-59).  A GET either ends in a transport exception or  *)
(* yields a response with a status; sleeps are counted in tenths of a      *)
(* second.                                                                 *)
(***************************************************************************)
StatusPool == {200, 204, 304, 404, 503}

GetOutcomes ==
    [kind : {"response"}, status : StatusPool]
        \cup {[kind |-> "exception", status |-> 0]}

Is2xx(o) == o.kind = "response" /\ 200 <= o.status /\ o.status < 300

\* resp.raise_for_status(): HTTPError for a 4xx or 5xx status
RaisesForStatus(status) == 400 <= status /\ status < 600

\* the attempt leaves the try block through `except Exception`
AttemptFails(o) == o.kind = "exception" \/ RaisesForStatus(o.status)

\* err = None
NoErr == [type |-> "None", attempt |-> 0, status |-> 0]

\* what `except Exception as e` binds on attempt k
ErrOf(k, o) ==
    IF o.kind = "exception"
    THEN [type |-> "RequestException", attempt |-> k, status |-> 0]
    ELSE [type |-> "HTTPError", attempt |-> k, status |-> o.status]

\* `raise None`
TypeErrorNone == [type |-> "TypeError", attempt |-> 0, status |-> 0]

\* faulty variant: only the first error is kept
NextErrFirst(old, e) == IF old = NoErr THEN e ELSE old

\* err = e
NextErr(old, e) == e

NoResp == [attempt |-> 0, status |-> 0]

\* faulty variant: one attempt too many
InRetryRangeOffByOne(k, n) == k <= n + 1

\* for attempt in range(1, max_retries + 1)
InRetryRange(k, n) == k <= n

\* time.sleep(1.5 * attempt), in tenths of a second
Backoff(k) == 15 * k

\* safe_get entered with max_retries = n
GetStart(n) ==
    /\ gpc = "loop"
    /\ max_retries = n
    /\ attempt = 1
    /\ err = NoErr
    /\ gets = <<>>
    /\ sleeps = <<>>
    /\ resp = NoResp
    /\ raised = NoErr

GetInit ==
    /\ gpc = "loop"
    /\ max_retries \in 0..MaxRetriesArg
    /\ attempt = 1
    /\ err = NoErr
    /\ gets = <<>>
    /\ sleeps = <<>>
    /\ resp = NoResp
    /\ raised = NoErr

GetIdle ==
    /\ gpc = "idle"
    /\ max_retries = 0
    /\ attempt = 1
    /\ err = NoErr
    /\ gets = <<>>
    /\ sleeps = <<>>
    /\ resp = NoResp
    /\ raised = NoErr

\* requests.get(...); resp.raise_for_status(); return resp
\* except Exception as e: err = e
GetAttempt ==
    /\ gpc = "loop"
    /\ InRetryRange(attempt, max_retries)
    /\ \E o \in GetOutcomes :
        /\ gets' = Append(gets, o)
        /\ IF AttemptFails(o)
           THEN /\ err' = NextErr(err, ErrOf(attempt, o))
                /\ gpc' = "except"
                /\ resp' = resp
           ELSE /\ resp' = [attempt |-> attempt, status |-> o.status]
                /\ gpc' = "returned"
                /\ err' = err
    /\ UNCHANGED <<max_retries, attempt, sleeps, raised>>

\* time.sleep(1.5 * attempt), then the next iteration
GetSleep ==
    /\ gpc = "except"
    /\ sleeps' = Append(sleeps, Backoff(attempt))
    /\ attempt' = attempt + 1
    /\ gpc' = "loop"
    /\ UNCHANGED <<max_retries, err, gets, resp, raised>>

\* raise err
GetRaise ==
    /\ gpc = "loop"
    /\ ~InRetryRange(attempt, max_retries)
    /\ raised' = IF err = NoErr THEN TypeErrorNone ELSE err
    /\ gpc' = "raised"
    /\ UNCHANGED <<max_retries, attempt, err, gets, sleeps, resp>>

(***************************************************************************)
(* Texts.  A text is a sequence of words; str.lower() works word by word.  *)
(* The term lists are the entries of the code's lists that the model's     *)
(* words can match.                                                        *)
(***************************************************************************)
LowerWord(w) ==
    CASE w = "Stage" -> "stage"
      [] w = "NATO" -> "nato"
      [] w = "Geneva" -> "geneva"
      [] w = "OSCE" -> "osce"
      [] w = "OTAN" -> "otan"
      [] w = "IFRI" -> "ifri"
      [] w = "Jobs" -> "jobs"
      [] w = "Stages" -> "stages"
      [] w = "RSS" -> "rss"
      [] OTHER -> w

Lower(text) == [i \in 1..Len(text) |-> LowerWord(text[i])]

\* any(term in t for term in terms)
HasTerm(t, terms) == \E i \in 1..Len(t) : t[i] \in terms

\* self.keywords (lines 100-136)
Keywords == {"stage", "nato", "otan", "osce", "iran"}

\* self.zones (lines 139-146)
Zones == {"geneva", "iran"}

\* self.duree_terms (lines 149-152)
DureeTerms == {"2026"}

\* the tokens of line 508
SignalTokens == {"nato", "parliament"}

\* the prefixes of line 558
SourcePrefixes == {"osce", "euiss", "eu-japan", "commission", "parlement"}

\* a marked section that html.parser rejects: BeautifulSoup raises on it
BadMarkup == "<![x"

WordPool == {"Stage", "stage", "Geneva", "2026", "NATO", "parliament", "misc", BadMarkup}

TextPool == SeqsUpTo(WordPool, MaxWords)

\* faulty variant: the text is matched as it is, without lower-casing
match_keywords_cased(text) == HasTerm(text, Keywords)

\* match_keywords (lines 463-465)
match_keywords(text) == HasTerm(Lower(text), Keywords)

\* match_zone (lines 467-469)
match_zone(text) == HasTerm(Lower(text), Zones)

\* match_duree (lines 471-473)
match_duree(text) == HasTerm(Lower(text), DureeTerms)

(***************************************************************************)
(* Sources.  A markup source has a name and a URL; a feed has a URL.       *)
(***************************************************************************)
SrcOsce == [nom |-> <<"OSCE", "Jobs">>, url |-> <<"o">>]
SrcOtan == [nom |-> <<"OTAN", "Stages">>, url |-> <<"n">>]
SrcIfri == [nom |-> <<"IFRI">>, url |-> <<"i">>]
SourcePool == {SrcOsce, SrcOtan, SrcIfri}

\* a feed: its URL, and no name
RssFeed == [nom |-> <<>>, url |-> <<"r">>]

\* any(x in texte for x in ["un ", " osce", "nato", ...]) (line 508)
RssSignal(texte) == HasTerm(texte, SignalTokens)

\* faulty variant: a signal token in the text also lets a markup posting through
HtmlSourceRelevantOrSignal(src, blob) ==
    \/ (src.nom # <<>> /\ LowerWord(Head(src.nom)) \in SourcePrefixes)
    \/ HasTerm(Lower(blob), SignalTokens)

\* source["nom"].lower().startswith((...)) (line 558)
HtmlSourceRelevant(src, blob) ==
    src.nom # <<>> /\ LowerWord(Head(src.nom)) \in SourcePrefixes

\* urljoin(source["url"], href) for the relative hrefs of the model
UrlJoin(base, href) == base \o href

\* A posting; the date, which nothing reads, is left out.
Posting(org, titre, lieu, lien, description) ==
    [organisation |-> org, titre |-> titre, lieu |-> lieu, lien |-> lien,
     description |-> description]

NoPosting == Posting(<<>>, <<>>, <<>>, <<>>, <<>>)

Skip(why) == [kept |-> FALSE, why |-> why, offre |-> NoPosting]
Keep(o) == [kept |-> TRUE, why |-> "appended", offre |-> o]

\* A link as an extractor finds it: a feed entry's "link" is a string
\* ("" when absent); a node's link element may be missing, or lack an href.
LinkNone == [tag |-> "none", val |-> <<>>]
LinkNoHref == [tag |-> "nohref", val |-> <<>>]
Href(l) == [tag |-> "href", val |-> l]

\* BeautifulSoup(desc, "html.parser") (line 517) raises on markup that the
\* parser rejects
SoupRaises(desc) == \E i \in 1..Len(desc) : desc[i] = BadMarkup

\* faulty variant: no entry is dropped for its link
NoLinkNever(lien) == FALSE

\* if not lien: continue (lines 495-496)
NoLink(lien) == lien = <<>>

\* One entry of extraire_offres_rss's loop (lines 489-518).  The texts of
\* the model are shorter than truncate's 300 characters.
RssItem(entry) ==
    LET titre == entry.title
        lien == Strip(entry.link.val)
        desc == entry.desc
        texte == Lower(titre \o desc)
    IN  IF NoLink(lien) THEN Skip("no_link")
        ELSE IF ~match_keywords(texte) THEN Skip("no_keyword")
        ELSE IF ~(match_zone(texte) \/ match_duree(texte)) /\ ~RssSignal(texte)
             THEN Skip("no_relevance")
        ELSE IF SoupRaises(desc) THEN Skip("exception")
        ELSE Keep(Posting(<<"RSS">>, titre, <<>>, lien, desc))

\* faulty variant: the href is taken as it is
LinkOfHrefAlone(src, href) == href

\* lien = urljoin(source["url"], href) if href else source["url"] (line 543)
LinkOf(src, href) == IF href # <<>> THEN UrlJoin(src.url, href) ELSE src.url

\* One container node of extraire_offres_html's loop (lines 534-572); the
\* placeholders are written without their accents and the dash as "-".
HtmlItem(src, node) ==
    LET titre == node.title
        lieu == node.lieu
        description == node.desc
        blob == titre \o description \o lieu
    IN  \* link_el.get("href") is None: None.strip() raises, the node is skipped
        IF node.link.tag = "nohref" THEN Skip("exception")
        ELSE LET href == IF node.link.tag = "href" THEN Strip(node.link.val) ELSE <<>>
                 lien == LinkOf(src, href)
             IN  IF ~match_keywords(blob) THEN Skip("no_keyword")
                 ELSE IF ~(match_zone(blob) \/ match_duree(blob))
                         /\ ~HtmlSourceRelevant(src, blob)
                      THEN Skip("no_relevance")
                 ELSE Keep(Posting(src.nom,
                                   IF titre # <<>> THEN titre ELSE <<"Titre non disponible">>,
                                   IF lieu # <<>> THEN lieu ELSE <<"Non precise">>,
                                   lien,
                                   IF description # <<>> THEN description ELSE <<"-">>))

(***************************************************************************)
(* One item put through one extractor.                                     *)
(***************************************************************************)
ItemPool ==
    [title : TextPool, desc : TextPool, lieu : {<<>>, <<"Geneva">>},
     link : {Href(<<>>), Href(LinkA), Href(<<" ", "a">>), LinkNone, LinkNoHref}]

NoItem == [title |-> <<>>, desc |-> <<>>, lieu |-> <<>>, link |-> LinkNone]

ClassInit ==
    /\ cpc = "item"
    /\ kind \in {"rss", "html"}
    /\ IF kind = "rss"
       THEN /\ source = RssFeed
            /\ item \in {e \in ItemPool : e.lieu = <<>> /\ e.link.tag = "href"}
       ELSE /\ source \in SourcePool
            /\ item \in ItemPool
    /\ verdict = Skip("none")

ClassIdle ==
    /\ cpc = "idle"
    /\ kind = "rss"
    /\ item = NoItem
    /\ source = RssFeed
    /\ verdict = Skip("none")

ExtractRssItem ==
    /\ cpc = "item"
    /\ kind = "rss"
    /\ verdict' = RssItem(item)
    /\ cpc' = "done"
    /\ UNCHANGED <<kind, item, source>>

ExtractHtmlItem ==
    /\ cpc = "item"
    /\ kind = "html"
    /\ verdict' = HtmlItem(source, item)
    /\ cpc' = "done"
    /\ UNCHANGED <<kind, item, source>>

(***************************************************************************)
(* The seen store, seen_links.json (lines 445-459).  The file is missing,  *)
(* or holds text that json.load rejects, or a JSON array, or a JSON        *)
(* object.  An array may hold a number beside its strings.                 *)
(***************************************************************************)
\* a JSON number among the items of the array
NumItem == <<"#">>

FileMissing == [kind |-> "missing", items |-> {}]
FileInvalid == [kind |-> "invalid", items |-> {}]
FileArray(S) == [kind |-> "array", items |-> S]
FileObject(S) == [kind |-> "object", items |-> S]

\* _load_seen (lines 445-452): set(json.load(f)), the empty set when the
\* file is missing or json.load raises; set() of an object is its keys
_load_seen(f) ==
    IF f.kind \in {"array", "object"} THEN f.items ELSE {}

\* sorted(list(self.seen)) raises TypeError on a str next to a number
Sortable(S) == NumItem \notin S \/ S = {NumItem}

\* What the write of _save_seen (lines 454-459) may do: open() fails and
\* the file is as before; open() has truncated the file and sorted() or
\* json.dump raises; or the sorted list is written.
SaveOutcomes(S) ==
    IF Sortable(S) THEN {"ok", "open_failed", "dump_failed"}
    ELSE {"open_failed", "dump_failed"}

\* faulty variant: the write leaves the file as it was
FileAfterSaveKeeps(f, S, outcome) == f

FileAfterSave(f, S, outcome) ==
    CASE outcome = "ok" -> FileArray(S)
      [] outcome = "open_failed" -> f
      [] outcome = "dump_failed" -> FileInvalid

\* faulty variant: only this run's links are kept
MarkSeenNewOnly(S, offs) == {offs[i].lien : i \in 1..Len(offs)}

\* for o in nouvelles: self.seen.add(o["lien"]) (lines 692-693)
MarkSeen(S, offs) == S \cup {offs[i].lien : i \in 1..Len(offs)}

(***************************************************************************)
(* Ranking (lines 592-596).  Strings are compared as Python compares them; *)
(* StrRank gives the order of the model's words.                           *)
(***************************************************************************)
PriorityTerms == {"iran"}

\* is_prioritaire (lines 475-480)
is_prioritaire(text) == HasTerm(Lower(text), PriorityTerms)

StrRank(w) ==
    CASE w = "-" -> 1
      [] w = "2026" -> 2
      [] w = "<![x" -> 3
      [] w = "Alpha" -> 4
      [] w = "Beta" -> 5
      [] w = "Geneva" -> 6
      [] w = "IFRI" -> 7
      [] w = "Jobs" -> 8
      [] w = "NATO" -> 9
      [] w = "Non precise" -> 10
      [] w = "OSCE" -> 11
      [] w = "OTAN" -> 12
      [] w = "RSS" -> 13
      [] w = "Stage" -> 14
      [] w = "Stages" -> 15
      [] w = "Titre non disponible" -> 16
      [] w = "Zeta" -> 17
      [] w = "iran" -> 18
      [] w = "misc" -> 19
      [] w = "parliament" -> 20
      [] w = "stage" -> 21
      [] OTHER -> 22

RECURSIVE StrLess(_, _)
StrLess(s, t) ==
    IF t = <<>> THEN FALSE
    ELSE IF s = <<>> THEN TRUE
    ELSE IF StrRank(Head(s)) # StrRank(Head(t)) THEN StrRank(Head(s)) < StrRank(Head(t))
    ELSE StrLess(Tail(s), Tail(t))

\* faulty variant: the two values of the first key are swapped
PrioKeyInverted(o) == IF is_prioritaire(o.titre \o o.description) THEN 1 ELSE 0

\* 0 if self.is_prioritaire(f"{o['titre']} {o['description']}") else 1
PrioKey(o) == IF is_prioritaire(o.titre \o o.description) THEN 0 ELSE 1

\* the sort key of line 595, compared as tuples
KeyLess(o1, o2) ==
    \/ PrioKey(o1) < PrioKey(o2)
    \/ PrioKey(o1) = PrioKey(o2) /\ StrLess(o1.organisation, o2.organisation)
    \/ /\ PrioKey(o1) = PrioKey(o2)
       /\ o1.organisation = o2.organisation
       /\ StrLess(o1.titre, o2.titre)

\* o inserted after every element that is not greater: sorted() is stable
RECURSIVE InsertSorted(_, _)
InsertSorted(sorted, o) ==
    IF sorted = <<>> THEN <<o>>
    ELSE IF KeyLess(o, Head(sorted)) THEN <<o>> \o sorted
    ELSE <<Head(sorted)>> \o InsertSorted(Tail(sorted), o)

RECURSIVE SortLoop(_, _)
SortLoop(rest, acc) ==
    IF rest = <<>> THEN acc ELSE SortLoop(Tail(rest), InsertSorted(acc, Head(rest)))

sort_prioritaires_first(offs) == SortLoop(offs, <<>>)

(***************************************************************************)
(* The extractors over a whole source.                                     *)
(***************************************************************************)
\* what a source serves: its items, or nothing when it cannot be fetched
Page(items) == [up |-> TRUE, items |-> items]
Down == [up |-> FALSE, items |-> <<>>]

\* `for entry in feed.entries` (lines 489-518) inside the try of line 487:
\* an exception ends the loop, and line 522 returns what was appended
RECURSIVE RssLoop(_, _)
RssLoop(rest, acc) ==
    IF rest = <<>> THEN acc
    ELSE LET v == RssItem(Head(rest))
         IN  IF v.why = "exception" THEN acc
             ELSE RssLoop(Tail(rest), IF v.kept THEN Append(acc, v.offre) ELSE acc)

\* extraire_offres_rss (lines 484-522): a feed that cannot be fetched has
\* no entries
extraire_offres_rss(page) ==
    IF ~page.up THEN <<>> ELSE RssLoop(page.items, <<>>)

\* soup.select(source["selector"])[:30] (line 533)
NodeCap == 30

Capped(nodes) == SubSeq(nodes, 1, IF Len(nodes) < NodeCap THEN Len(nodes) ELSE NodeCap)

\* faulty variant: an exception in a node ends the loop
NodesAfterExceptionNone(rest) == <<>>

\* except Exception: continue (lines 571-572)
NodesAfterException(rest) == Tail(rest)

\* `for job in ...` (lines 533-572)
RECURSIVE HtmlLoop(_, _, _)
HtmlLoop(src, rest, acc) ==
    IF rest = <<>> THEN acc
    ELSE LET v == HtmlItem(src, Head(rest))
         IN  IF v.why = "exception" THEN HtmlLoop(src, NodesAfterException(rest), acc)
             ELSE HtmlLoop(src, Tail(rest), IF v.kept THEN Append(acc, v.offre) ELSE acc)

\* extraire_offres_html (lines 526-576): safe_get raises and nothing is
\* returned, or the first 30 nodes are put through the loop's body
extraire_offres_html(src, page) ==
    IF ~page.up THEN <<>> ELSE HtmlLoop(src, Capped(page.items), <<>>)

\* self.rss_urls (lines 154-165) and self.sources_html (lines 168-441)
RssUrls == <<RssFeed>>
SourcesHtml == <<SrcOsce, SrcIfri>>

(***************************************************************************)
(* The contents the sources may have.                                      *)
(***************************************************************************)
Entry(title, desc, lieu, link) ==
    [title |-> title, desc |-> desc, lieu |-> lieu, link |-> link]

EntryA == Entry(<<"Stage">>, <<"Geneva">>, <<>>, Href(<<" ", "a">>))
EntryB == Entry(<<"NATO">>, <<>>, <<>>, Href(LinkB))
EntryNoLink == Entry(<<"Stage">>, <<"2026">>, <<>>, Href(<<>>))
EntryBad == Entry(<<"NATO">>, <<BadMarkup>>, <<>>, Href(LinkA))

NodeA == Entry(<<"stage">>, <<>>, <<"Geneva">>, Href(LinkA))
NodeA2 == Entry(<<"Stage">>, <<"misc">>, <<>>, Href(<<"a", " ">>))
NodeBare == Entry(<<"Stage">>, <<"2026">>, <<>>, LinkNone)
NodeOff == Entry(<<"misc">>, <<>>, <<>>, Href(LinkB))
NodeNoHref == Entry(<<"Stage">>, <<"Geneva">>, <<>>, LinkNoHref)
NodeC == Entry(<<"NATO">>, <<>>, <<"Geneva">>, Href(<<"c">>))
NodeBlank == Entry(<<"NATO">>, <<"2026">>, <<>>, Href(<<" ">>))

FeedPages ==
    {Down, Page(<<>>), Page(<<EntryA, EntryNoLink>>), Page(<<EntryB, EntryA>>),
     Page(<<EntryB, EntryBad, EntryA>>)}
OscePages == {Down, Page(<<NodeA, NodeA2>>), Page(<<NodeA, NodeOff, NodeC>>)}
IfriPages == {Page(<<>>), Page(<<NodeBare>>), Page(<<NodeNoHref, NodeBare, NodeBlank>>)}

Worlds == [rss : [{1} -> FeedPages], html : {<<p, q>> : p \in OscePages, q \in IfriPages}]

\* TELEGRAM_TOKEN and TELEGRAM_CHAT_ID (lines 88-89), "" when unset
Envs == {[token |-> "tok", chat_id |-> "chat"],
         [token |-> "", chat_id |-> "chat"],
         [token |-> "tok", chat_id |-> ""]}

SeenFiles ==
    {FileMissing, FileInvalid, FileArray({}), FileArray({LinkB}),
     FileArray({LinkB, NumItem}), FileObject({LinkB})}

NoArchive == [written |-> FALSE, total |-> 0, offres |-> <<>>]

(***************************************************************************)
(* One source put through its extractor, the fetch included.  The markup   *)
(* extractor fetches with safe_get and its default max_retries (line 530); *)
(* the feed extractor hands the URL to feedparser.parse (line 488), which  *)
(* makes one GET and has no entries when that GET fails.                   *)
(***************************************************************************)
\* max_retries=2 (line 38)
DefaultMaxRetries == 2

MaxNodes == 3

\* a page of more container nodes than the cap: the first and the one
\* after the cap would be accepted, one raises, the others are off topic
LongPage ==
    [i \in 1..(NodeCap + 1) |->
        IF i \in {1, NodeCap + 1} THEN NodeA
        ELSE IF i = 2 THEN NodeNoHref ELSE NodeOff]

EntryPool == {EntryA, EntryB, EntryNoLink, EntryBad}
NodePool == {NodeA, NodeA2, NodeBare, NodeOff, NodeNoHref}

\* the body of a response: the items are there in a 200, and a 204 or a
\* 304 has no body
BodyOf(status, items) == IF status = 200 THEN Page(items) ELSE Page(<<>>)

SourceInit ==
    /\ xpc = "fetch"
    /\ xkind \in {"rss", "html"}
    /\ IF xkind = "rss"
       THEN /\ xsrc = RssFeed
            /\ xitems \in SeqsUpTo(EntryPool, MaxNodes)
            /\ GetIdle
       ELSE /\ xsrc \in SourcePool
            /\ xitems \in SeqsUpTo(NodePool, MaxNodes) \cup {LongPage}
            /\ GetStart(DefaultMaxRetries)
    /\ xoffres = <<>>

SourceIdle ==
    /\ xpc = "idle"
    /\ xkind = "rss"
    /\ xsrc = RssFeed
    /\ xitems = <<>>
    /\ xoffres = <<>>

\* feedparser.parse(url) and the loop over its entries (lines 487-520)
RssFetchAndExtract ==
    /\ xpc = "fetch"
    /\ xkind = "rss"
    /\ \E o \in GetOutcomes :
        /\ gets' = Append(gets, o)
        /\ xoffres' = extraire_offres_rss(IF Is2xx(o) THEN BodyOf(o.status, xitems) ELSE Down)
    /\ xpc' = "done"
    /\ UNCHANGED <<gpc, max_retries, attempt, err, sleeps, resp, raised, xkind, xsrc, xitems>>

\* one step of safe_get(source["url"]) (line 530)
HtmlFetch ==
    /\ xpc = "fetch"
    /\ xkind = "html"
    /\ (GetAttempt \/ GetSleep \/ GetRaise)
    /\ UNCHANGED sourceVars

\* safe_get has returned or raised: lines 531-576
HtmlExtract ==
    /\ xpc = "fetch"
    /\ xkind = "html"
    /\ gpc \in {"returned", "raised"}
    /\ xoffres' = extraire_offres_html(xsrc, IF gpc = "returned" THEN BodyOf(resp.status, xitems)
                                            ELSE Down)
    /\ xpc' = "done"
    /\ UNCHANGED <<getVars, xkind, xsrc, xitems>>

(***************************************************************************)
(* Serial runs of the script.                                              *)
(***************************************************************************)
\* faulty variant: the notification is sent before anything is written
StepAfterSendFirst(step) ==
    CASE step = "rank" -> "telegram"
      [] step = "telegram" -> "archive"
      [] step = "archive" -> "mark"
      [] step = "mark" -> "end"

\* the statements of executer_veille after the ranking, in the order of
\* lines 688-697: save_of_day, the seen store, send_telegram
StepAfter(step) ==
    CASE step = "rank" -> "archive"
      [] step = "archive" -> "mark"
      [] step = "mark" -> "telegram"
      [] step = "telegram" -> "end"

PipeInit ==
    /\ seen_file \in SeenFiles
    /\ env \in Envs
    /\ world \in Worlds
    /\ pc = "new"
    /\ seen = {}
    /\ src_i = 1
    /\ toutes = <<>>
    /\ nouvelles = <<>>
    /\ archive = NoArchive
    /\ posts = <<>>
    /\ deliveries = <<>>
    /\ visited = <<>>
    /\ fetches = <<>>
    /\ loaded = {}
    /\ loads = 0
    /\ saves = 0
    /\ written = {}
    /\ save_outcome = "none"
    /\ archived = 0
    /\ archive_outcome = "none"
    /\ ever_new = {}
    /\ writes_ok = TRUE
    /\ same_content = FALSE

PipeIdle ==
    /\ seen_file = FileMissing
    /\ env = [token |-> "", chat_id |-> ""]
    /\ world = [rss |-> [i \in {1} |-> Down], html |-> <<Down, Down>>]
    /\ pc = "idle"
    /\ seen = {}
    /\ src_i = 1
    /\ toutes = <<>>
    /\ nouvelles = <<>>
    /\ archive = NoArchive
    /\ posts = <<>>
    /\ deliveries = <<>>
    /\ visited = <<>>
    /\ fetches = <<>>
    /\ loaded = {}
    /\ loads = 0
    /\ saves = 0
    /\ written = {}
    /\ save_outcome = "none"
    /\ archived = 0
    /\ archive_outcome = "none"
    /\ ever_new = {}
    /\ writes_ok = TRUE
    /\ same_content = FALSE

\* between two runs the sources publish something else
SourcesChange ==
    /\ pc = "new"
    /\ \E w \in Worlds : w # world /\ world' = w
    /\ same_content' = FALSE
    /\ UNCHANGED <<seen_file, env, runVars, storeVars, ever_new, writes_ok>>

\* VeilleStagesComplete() (lines 86-97): a new process, self.seen loaded
Construct ==
    /\ pc = "new"
    /\ seen' = _load_seen(seen_file)
    /\ loaded' = _load_seen(seen_file)
    /\ loads' = loads + 1
    /\ pc' = "rss"
    /\ UNCHANGED <<worldVars, src_i, toutes, nouvelles, archive, posts, deliveries, visited, fetches,
                   saves, written, save_outcome, archived, archive_outcome, histVars>>

\* faulty variant: a second GET follows the one that was answered
RECURSIVE GetsMadeTwice(_, _, _)
GetsMadeTwice(page, n, retries) ==
    IF n >= retries THEN n ELSE GetsMadeTwice(page, n + 1, retries)

\* The GETs of one safe_get call (lines 46-58) on a server that answers
\* every GET alike: the n-th GET is the last when it is answered with a
\* page, or when it was the last attempt.
RECURSIVE GetsMade(_, _, _)
GetsMade(page, n, retries) ==
    IF page.up \/ n >= retries THEN n ELSE GetsMade(page, n + 1, retries)

\* one turn of `for rss in self.rss_urls` (lines 669-674); feedparser.parse
\* makes the one GET of a feed
ExtractRss ==
    /\ pc = "rss"
    /\ toutes' = toutes \o extraire_offres_rss(world.rss[src_i])
    /\ visited' = Append(visited, RssUrls[src_i].url)
    /\ fetches' = Append(fetches, 1)
    /\ IF src_i < Len(RssUrls)
       THEN src_i' = src_i + 1 /\ pc' = pc
       ELSE src_i' = 1 /\ pc' = "html"
    /\ UNCHANGED <<worldVars, seen, nouvelles, archive, posts, deliveries, storeVars, histVars>>

\* one turn of `for src in self.sources_html` (lines 677-682)
ExtractHtml ==
    /\ pc = "html"
    /\ toutes' = toutes \o extraire_offres_html(SourcesHtml[src_i], world.html[src_i])
    /\ visited' = Append(visited, SourcesHtml[src_i].url)
    /\ fetches' = Append(fetches, GetsMade(world.html[src_i], 1, DefaultMaxRetries))
    /\ IF src_i < Len(SourcesHtml)
       THEN src_i' = src_i + 1 /\ pc' = pc
       ELSE src_i' = 1 /\ pc' = "rank"
    /\ UNCHANGED <<worldVars, seen, nouvelles, archive, posts, deliveries, storeVars, histVars>>

\* lines 685-686
DedupeAndRank ==
    /\ pc = "rank"
    /\ nouvelles' = sort_prioritaires_first(dedupe_and_new_only(toutes, seen))
    /\ pc' = StepAfter("rank")
    /\ UNCHANGED <<worldVars, seen, src_i, toutes, archive, posts, deliveries, visited, fetches,
                   storeVars, histVars>>

\* the record of lines 604-608; the date is left out
ArchiveRecord(offs) == [written |-> TRUE, total |-> Len(offs), offres |-> offs]

\* save_of_day (lines 600-611): the dated record is written, or the write
\* raises, the error is printed and save_of_day returns
SaveOfDay ==
    /\ pc = "archive"
    /\ \E ok \in BOOLEAN :
        /\ archive' = IF ok THEN ArchiveRecord(nouvelles) ELSE archive
        /\ archive_outcome' = IF ok THEN "ok" ELSE "failed"
    /\ archived' = archived + 1
    /\ pc' = StepAfter("archive")
    /\ UNCHANGED <<worldVars, seen, src_i, toutes, nouvelles, posts, deliveries, visited, fetches,
                   loaded, loads, saves, written, save_outcome, histVars>>

\* lines 692-694: the new links are added to self.seen, then _save_seen
MarkAndSaveSeen ==
    /\ pc = "mark"
    /\ seen' = MarkSeen(seen, nouvelles)
    /\ \E outcome \in SaveOutcomes(seen') :
        /\ seen_file' = FileAfterSave(seen_file, seen', outcome)
        /\ save_outcome' = outcome
        /\ writes_ok' = (writes_ok /\ outcome = "ok")
    /\ written' = seen'
    /\ saves' = saves + 1
    /\ pc' = StepAfter("mark")
    /\ UNCHANGED <<env, world, src_i, toutes, nouvelles, archive, posts, deliveries, visited, fetches,
                   loaded, loads, archived, archive_outcome, ever_new, same_content>>

NoNewMessage == [type |-> "no_new", liens |-> <<>>]

\* send_telegram (lines 615-645): nothing without both credentials; one
\* message when there is nothing new; else the listing, which for the few
\* postings of a run of the model is far below the 4096 characters at
\* which chunk_telegram starts a second part
\* faulty variant: nothing is sent only when both credentials are missing
MissingCredentialsBoth(e) == e.token = "" /\ e.chat_id = ""

\* if not self.telegram_token or not self.telegram_chat_id (line 616)
MissingCredentials(e) == e.token = "" \/ e.chat_id = ""

send_telegram(e, offs) ==
    IF MissingCredentials(e) THEN <<>>
    ELSE IF offs = <<>> THEN <<NoNewMessage>>
    ELSE <<[type |-> "listing", liens |-> [i \in 1..Len(offs) |-> Strip(offs[i].lien)]]>>

\* _telegram_post (lines 647-659): the POST is accepted, or answered with
\* an error status, or raises; each case is printed and nothing is raised
PostOutcomes == {"ok", "http_error", "exception"}

\* line 697: every part is posted, whatever became of the one before
SendTelegram ==
    /\ pc = "telegram"
    /\ posts' = send_telegram(env, nouvelles)
    /\ deliveries' \in [1..Len(posts') -> PostOutcomes]
    /\ pc' = StepAfter("telegram")
    /\ UNCHANGED <<worldVars, seen, src_i, toutes, nouvelles, archive, visited, fetches,
                   storeVars, histVars>>

\* the process exits and its memory is gone; the next run is a new process
Finish ==
    /\ pc = "end"
    /\ ever_new' = ever_new \cup {nouvelles[i].lien : i \in 1..Len(nouvelles)}
    /\ same_content' = TRUE
    /\ pc' = "new"
    /\ seen' = {}
    /\ src_i' = 1
    /\ toutes' = <<>>
    /\ nouvelles' = <<>>
    /\ archive' = NoArchive
    /\ posts' = <<>>
    /\ deliveries' = <<>>
    /\ visited' = <<>>
    /\ fetches' = <<>>
    /\ loaded' = {}
    /\ loads' = 0
    /\ saves' = 0
    /\ written' = {}
    /\ save_outcome' = "none"
    /\ archived' = 0
    /\ archive_outcome' = "none"
    /\ UNCHANGED <<worldVars, writes_ok>>

(***************************************************************************)
(* dedupe_and_new_only applied to any candidate list and any seen set.     *)
(***************************************************************************)
DedupeInit ==
    /\ dpc = "call"
    /\ offres \in SeqsUpTo(CandPool, MaxCand)
    /\ seen_arg \in SeenArgPool
    /\ nouveaux = <<>>
    /\ nouveaux2 = <<>>

DedupeIdle ==
    /\ dpc = "idle"
    /\ offres = <<>>
    /\ seen_arg = {}
    /\ nouveaux = <<>>
    /\ nouveaux2 = <<>>

DedupeCall ==
    /\ dpc = "call"
    /\ nouveaux' = dedupe_and_new_only(offres, seen_arg)
    /\ seen_arg' = SeenAfterDedupe(offres, seen_arg)
    /\ offres' = OffresAfterDedupe(offres)
    /\ dpc' = "ret"
    /\ UNCHANGED nouveaux2

\* the same call made a second time
DedupeCallAgain ==
    /\ dpc = "ret"
    /\ nouveaux2' = dedupe_and_new_only(offres, seen_arg)
    /\ seen_arg' = SeenAfterDedupe(offres, seen_arg)
    /\ offres' = OffresAfterDedupe(offres)
    /\ dpc' = "ret2"
    /\ UNCHANGED nouveaux

\* what executer_veille does with the new postings (lines 692-693)
DedupeMark ==
    /\ dpc = "ret"
    /\ seen_arg' = MarkSeen(seen_arg, nouveaux)
    /\ dpc' = "marked"
    /\ UNCHANGED <<offres, nouveaux, nouveaux2>>

\* the call of the next run, on the same candidates and the marked set
DedupeNextRun ==
    /\ dpc = "marked"
    /\ nouveaux2' = dedupe_and_new_only(offres, seen_arg)
    /\ seen_arg' = SeenAfterDedupe(offres, seen_arg)
    /\ offres' = OffresAfterDedupe(offres)
    /\ dpc' = "rerun"
    /\ UNCHANGED nouveaux

(***************************************************************************)
(* chunk_telegram (lines 67-81).  A text is a sequence of characters; the  *)
(* line terminators of the model are "\n", "\r" and "\r\n".                *)
(***************************************************************************)
MaxText == 5
MaxLimit == 4
MaxLines == 5

\* limit=4096 (line 67)
TelegramLimit == 4096

CharPool == {"x", "\n", "\r"}

\* text.splitlines(True): a line ends after "\n", and after a "\r" that no
\* "\n" follows; the terminator stays with its line
EndsLine(t, i) ==
    \/ t[i] = "\n"
    \/ t[i] = "\r" /\ (i = Len(t) \/ t[i + 1] # "\n")

RECURSIVE SplitFrom(_, _)
SplitFrom(t, start) ==
    IF start > Len(t) THEN <<>>
    ELSE LET ends == {i \in start..Len(t) : EndsLine(t, i)}
             e == IF ends = {} THEN Len(t)
                  ELSE CHOOSE i \in ends : \A j \in ends : i <= j
         IN  <<SubSeq(t, start, e)>> \o SplitFrom(t, e + 1)

splitlines(t) == SplitFrom(t, 1)

\* "".join(buf)
RECURSIVE Join(_)
Join(buf) == IF buf = <<>> THEN <<>> ELSE Head(buf) \o Join(Tail(buf))

\* faulty variant: nothing is ever flushed
OverflowsNever(size, line_len, lim) == FALSE

\* faulty variant: the part is flushed one character too late
OverflowsLate(size, line_len, lim) == size + line_len > lim + 1

\* if size + line_len > limit (line 73)
Overflows(size, line_len, lim) == size + line_len > lim

\* faulty variant: the line that overflows is dropped
BufAfterFlushEmpty(line) == <<>>

\* buf, size = [line], line_len (line 75)
BufAfterFlush(line) == <<line>>

\* the loop of lines 71-78 and the flush of lines 79-80
RECURSIVE ChunkLoop(_, _, _, _, _)
ChunkLoop(lines, lim, done, buf, size) ==
    IF lines = <<>> THEN (IF buf # <<>> THEN Append(done, Join(buf)) ELSE done)
    ELSE LET line == Head(lines)
             line_len == Len(line)
         IN  IF Overflows(size, line_len, lim)
             THEN ChunkLoop(Tail(lines), lim, Append(done, Join(buf)),
                            BufAfterFlush(line), line_len)
             ELSE ChunkLoop(Tail(lines), lim, done, Append(buf, line), size + line_len)

chunk_telegram(t, lim) == ChunkLoop(splitlines(t), lim, <<>>, <<>>, 0)

\* a line of n characters, its "\n" included
LineOf(n) == [i \in 1..n |-> IF i = n THEN "\n" ELSE "x"]

RECURSIVE Sum(_)
Sum(lens) == IF lens = <<>> THEN 0 ELSE Head(lens) + Sum(Tail(lens))

\* payloads of 5000 characters, as send_telegram builds them: every line
\* ends in "\n" and none is longer than the limit
LenPool == {100, 900, 904, 1000, 1600, 2500, 3200, 4096}
PayloadLens == {lens \in SeqsUpTo(LenPool, MaxLines) : Sum(lens) = 5000}
Payloads == {Join([i \in 1..Len(lens) |-> LineOf(lens[i])]) : lens \in PayloadLens}

ChunkInit ==
    /\ kpc = "call"
    /\ \/ chunk_text \in SeqsUpTo(CharPool, MaxText) /\ limit \in (0 - 1)..MaxLimit
       \/ chunk_text \in Payloads /\ limit = TelegramLimit
    /\ parts = <<>>

ChunkIdle ==
    /\ kpc = "idle"
    /\ chunk_text = <<>>
    /\ limit = TelegramLimit
    /\ parts = <<>>

ChunkCall ==
    /\ kpc = "call"
    /\ parts' = chunk_telegram(chunk_text, limit)
    /\ kpc' = "ret"
    /\ UNCHANGED <<chunk_text, limit>>

(***************************************************************************)
(* sort_prioritaires_first applied to any list of postings.                *)
(***************************************************************************)
MaxSort == 3

SortPool ==
    {Posting(org, titre, <<>>, lien, description) :
        org \in {<<"Zeta">>, <<"Alpha">>, <<"Beta">>},
        titre \in {<<"Stage">>, <<"misc">>},
        lien \in {LinkA, LinkB},
        description \in {<<>>, <<"iran">>}}

SortInit ==
    /\ spc = "call"
    /\ sort_in \in SeqsUpTo(SortPool, MaxSort)
    /\ sort_out = <<>>

SortIdle ==
    /\ spc = "idle"
    /\ sort_in = <<>>
    /\ sort_out = <<>>

SortCall ==
    /\ spc = "call"
    /\ sort_out' = sort_prioritaires_first(sort_in)
    /\ spc' = "ret"
    /\ UNCHANGED sort_in

(***************************************************************************)
(* The result list of a run, computed for a candidate list and for its     *)
(* twin: the same list, in which one posting has a priority term added to  *)
(* its description.  In veille-complete.py the result list is              *)
(* sort_prioritaires_first(dedupe_and_new_only(toutes)) (lines 684, 687);  *)
(* in veille-stages.py it is filtrer_nouvelles_offres(toutes_offres)       *)
(* (line 669 there).                                                       *)
(***************************************************************************)
MaxFill == 21

\* nouvelles_offres[:20] (veille-stages.py, line 415)
NonPriorityCap == 20

\* the entries of duree_keywords, niveau_keywords and of the domain list
\* (veille-stages.py, lines 422-436) that the model's words can match
PertinenceTerms == {"2026"}

\* priorite_keywords (veille-stages.py, lines 444-448)
PrioriteKeywords == {"iran"}

\* est_offre_pertinente (veille-stages.py, lines 417-438)
est_offre_pertinente(o) == HasTerm(Lower(o.titre \o o.description), PertinenceTerms)

\* est_offre_prioritaire (veille-stages.py, lines 440-450)
est_offre_prioritaire(o) == HasTerm(Lower(o.titre \o o.description), PrioriteKeywords)

est_offre_ordinaire(o) == ~est_offre_prioritaire(o)

\* nouvelles_offres[:20]
FirstN(s, n) == SubSeq(s, 1, IF Len(s) < n THEN Len(s) ELSE n)

\* filtrer_nouvelles_offres (veille-stages.py, lines 401-415)
filtrer_nouvelles_offres(offs) ==
    LET pertinentes == SelectSeq(offs, est_offre_pertinente)
        offres_prioritaires == SelectSeq(pertinentes, est_offre_prioritaire)
        nouvelles_offres == SelectSeq(pertinentes, est_offre_ordinaire)
    IN  offres_prioritaires \o FirstN(nouvelles_offres, NonPriorityCap)

\* the result list of one run of either script
ResultList(which, offs, vus) ==
    IF which = "veille-complete"
    THEN sort_prioritaires_first(dedupe_and_new_only(offs, vus))
    ELSE filtrer_nouvelles_offres(offs)

\* the twin of a posting: the same posting with a priority term
Twin(o) == [o EXCEPT !.description = @ \o <<"iran">>]

\* candidate lists of veille-complete.py
PlainPool ==
    {Posting(<<"Alpha">>, titre, <<>>, lien, description) :
        titre \in {<<"Stage">>, <<"misc">>},
        lien \in {LinkA, LinkB, <<" ", "a">>},
        description \in {<<>>, <<"iran">>}}

\* candidate lists of veille-stages.py: n postings with links of 1..n
\* characters, all relevant, all ordinary or all with a priority term
Filler(k, description) ==
    Posting(<<"Alpha">>, <<"Stage">>, <<>>, [i \in 1..k |-> "x"], description)

Fillers(n, description) == [k \in 1..n |-> Filler(k, description)]

InsertAt(s, i, o) == SubSeq(s, 1, i - 1) \o <<o>> \o SubSeq(s, i, Len(s))

StagesProbes ==
    {Posting(<<"Beta">>, <<"Stage">>, <<>>, LinkB, description) :
        description \in {<<"2026">>, <<"misc">>}}

StagesListsOf(n) ==
    {[list |-> InsertAt(Fillers(n, description), i, o), at |-> i] :
        i \in 1..(n + 1),
        description \in {<<"2026">>, <<"2026", "iran">>}, o \in StagesProbes}

StagesLists == UNION {StagesListsOf(n) : n \in 0..MaxFill}

FilterInit ==
    /\ fpc = "call"
    /\ script \in {"veille-complete", "veille-stages"}
    /\ IF script = "veille-complete"
       THEN /\ cands_plain \in SeqsUpTo(PlainPool, MaxCand) \ {<<>>}
            /\ probe \in 1..Len(cands_plain)
            /\ seen_f \in SUBSET {LinkA, LinkB}
       ELSE /\ \E l \in StagesLists :
                   /\ cands_plain = l.list
                   /\ probe = l.at
            /\ seen_f = {}
    \* the probe is an ordinary posting, and no other candidate is its twin
    /\ ~is_prioritaire(cands_plain[probe].titre \o cands_plain[probe].description)
    /\ \A i \in 1..Len(cands_plain) :
           i # probe => cands_plain[i] \notin {cands_plain[probe], Twin(cands_plain[probe])}
    /\ result_plain = <<>>
    /\ result_twin = <<>>

FilterIdle ==
    /\ fpc = "idle"
    /\ script = "veille-complete"
    /\ cands_plain = <<>>
    /\ probe = 0
    /\ seen_f = {}
    /\ result_plain = <<>>
    /\ result_twin = <<>>

\* the run on the candidate list, and the run on its twin
FilterCall ==
    /\ fpc = "call"
    /\ result_plain' = ResultList(script, cands_plain, seen_f)
    /\ result_twin' =
           ResultList(script, [cands_plain EXCEPT ![probe] = Twin(@)], seen_f)
    /\ fpc' = "ret"
    /\ UNCHANGED <<script, cands_plain, probe, seen_f>>

(***************************************************************************)
(* Two runs of the script on one seen store, with no lock between them     *)
(* (none is taken anywhere in the program).  A run loads the store in its  *)
(* constructor (line 97) and writes it once, at lines 692-694; whatever    *)
(* the run extracts lies between the two.                                  *)
(***************************************************************************)
MaxRaceCand == 2

Runs == {1, 2}

RacePool == [lien : {LinkA, LinkB}, titre : {"t1"}]

RaceFiles == {FileMissing, FileArray({}), FileArray({LinkB})}

RaceInit ==
    /\ rpc = [r \in Runs |-> "new"]
    /\ rfile \in RaceFiles
    /\ rcands \in [Runs -> SeqsUpTo(RacePool, MaxRaceCand)]
    /\ rseen = [r \in Runs |-> {}]
    /\ radded = [r \in Runs |-> {}]
    /\ rwrites_ok = TRUE
    /\ overlap = FALSE

RaceIdle ==
    /\ rpc = [r \in Runs |-> "idle"]
    /\ rfile = FileMissing
    /\ rcands = [r \in Runs |-> <<>>]
    /\ rseen = [r \in Runs |-> {}]
    /\ radded = [r \in Runs |-> {}]
    /\ rwrites_ok = TRUE
    /\ overlap = FALSE

\* VeilleStagesComplete() of run r: self.seen = self._load_seen()
RaceLoad(r) ==
    /\ rpc[r] = "new"
    /\ rseen' = [rseen EXCEPT ![r] = _load_seen(rfile)]
    /\ rpc' = [rpc EXCEPT ![r] = "loaded"]
    /\ overlap' = (overlap \/ \E q \in Runs \ {r} : rpc[q] = "loaded")
    /\ UNCHANGED <<rfile, rcands, radded, rwrites_ok>>

\* executer_veille of run r, from the extraction to _save_seen (line 694)
RaceSave(r) ==
    /\ rpc[r] = "loaded"
    /\ LET news == dedupe_and_new_only(rcands[r], rseen[r])
           marked == MarkSeen(rseen[r], news)
       IN  /\ rseen' = [rseen EXCEPT ![r] = marked]
           /\ radded' = [radded EXCEPT ![r] = {news[i].lien : i \in 1..Len(news)}]
           /\ \E outcome \in SaveOutcomes(marked) :
                  /\ rfile' = FileAfterSave(rfile, marked, outcome)
                  /\ rwrites_ok' = (rwrites_ok /\ outcome = "ok")
    /\ rpc' = [rpc EXCEPT ![r] = "done"]
    /\ UNCHANGED <<rcands, overlap>>

(***************************************************************************)
(* Specifications.                                                         *)
(***************************************************************************)
DedupeNext ==
    \/ DedupeCall /\ UNCHANGED <<getVars, classVars, pipeVars, sourceVars, chunkVars, sortVars, filterVars, raceVars>>
    \/ DedupeCallAgain /\ UNCHANGED <<getVars, classVars, pipeVars, sourceVars, chunkVars, sortVars, filterVars, raceVars>>
    \/ DedupeMark /\ UNCHANGED <<getVars, classVars, pipeVars, sourceVars, chunkVars, sortVars, filterVars, raceVars>>
    \/ DedupeNextRun /\ UNCHANGED <<getVars, classVars, pipeVars, sourceVars, chunkVars, sortVars, filterVars, raceVars>>

InitDedupe ==
    DedupeInit /\ GetIdle /\ ClassIdle /\ PipeIdle /\ SourceIdle /\ ChunkIdle /\ SortIdle /\ FilterIdle /\ RaceIdle

SpecDedupe == InitDedupe /\ [][DedupeNext]_vars

GetNext ==
    \/ GetAttempt /\ UNCHANGED <<dedupeVars, classVars, pipeVars, sourceVars, chunkVars, sortVars, filterVars, raceVars>>
    \/ GetSleep /\ UNCHANGED <<dedupeVars, classVars, pipeVars, sourceVars, chunkVars, sortVars, filterVars, raceVars>>
    \/ GetRaise /\ UNCHANGED <<dedupeVars, classVars, pipeVars, sourceVars, chunkVars, sortVars, filterVars, raceVars>>

InitGet ==
    GetInit /\ DedupeIdle /\ ClassIdle /\ PipeIdle /\ SourceIdle /\ ChunkIdle /\ SortIdle /\ FilterIdle /\ RaceIdle

SpecGet == InitGet /\ [][GetNext]_vars

ClassNext ==
    \/ ExtractRssItem /\ UNCHANGED <<dedupeVars, getVars, pipeVars, sourceVars, chunkVars, sortVars, filterVars, raceVars>>
    \/ ExtractHtmlItem /\ UNCHANGED <<dedupeVars, getVars, pipeVars, sourceVars, chunkVars, sortVars, filterVars, raceVars>>

InitClassify ==
    ClassInit /\ DedupeIdle /\ GetIdle /\ PipeIdle /\ SourceIdle /\ ChunkIdle /\ SortIdle /\ FilterIdle /\ RaceIdle

ChunkNext ==
    ChunkCall /\ UNCHANGED <<dedupeVars, getVars, classVars, pipeVars, sourceVars, sortVars, filterVars, raceVars>>

InitChunk ==
    ChunkInit /\ DedupeIdle /\ GetIdle /\ ClassIdle /\ PipeIdle /\ SourceIdle /\ SortIdle /\ FilterIdle /\ RaceIdle

SpecChunk == InitChunk /\ [][ChunkNext]_vars

SortNext ==
    SortCall /\ UNCHANGED <<dedupeVars, getVars, classVars, pipeVars, sourceVars, chunkVars, filterVars, raceVars>>

InitSort ==
    SortInit /\ DedupeIdle /\ GetIdle /\ ClassIdle /\ PipeIdle /\ SourceIdle /\ ChunkIdle /\ FilterIdle /\ RaceIdle

SpecSort == InitSort /\ [][SortNext]_vars

SourceNext ==
    \/ RssFetchAndExtract /\ UNCHANGED <<dedupeVars, classVars, pipeVars, chunkVars, sortVars, filterVars, raceVars>>
    \/ HtmlFetch /\ UNCHANGED <<dedupeVars, classVars, pipeVars, chunkVars, sortVars, filterVars, raceVars>>
    \/ HtmlExtract /\ UNCHANGED <<dedupeVars, classVars, pipeVars, chunkVars, sortVars, filterVars, raceVars>>

InitSource == SourceInit /\ DedupeIdle /\ ClassIdle /\ PipeIdle /\ ChunkIdle /\ SortIdle /\ FilterIdle /\ RaceIdle

SpecSource == InitSource /\ [][SourceNext]_vars

SpecClassify == InitClassify /\ [][ClassNext]_vars

Next ==
    \/ SourcesChange /\ UNCHANGED <<dedupeVars, getVars, classVars, sourceVars, chunkVars, sortVars, filterVars, raceVars>>
    \/ Construct /\ UNCHANGED <<dedupeVars, getVars, classVars, sourceVars, chunkVars, sortVars, filterVars, raceVars>>
    \/ ExtractRss /\ UNCHANGED <<dedupeVars, getVars, classVars, sourceVars, chunkVars, sortVars, filterVars, raceVars>>
    \/ ExtractHtml /\ UNCHANGED <<dedupeVars, getVars, classVars, sourceVars, chunkVars, sortVars, filterVars, raceVars>>
    \/ DedupeAndRank /\ UNCHANGED <<dedupeVars, getVars, classVars, sourceVars, chunkVars, sortVars, filterVars, raceVars>>
    \/ SaveOfDay /\ UNCHANGED <<dedupeVars, getVars, classVars, sourceVars, chunkVars, sortVars, filterVars, raceVars>>
    \/ MarkAndSaveSeen /\ UNCHANGED <<dedupeVars, getVars, classVars, sourceVars, chunkVars, sortVars, filterVars, raceVars>>
    \/ SendTelegram /\ UNCHANGED <<dedupeVars, getVars, classVars, sourceVars, chunkVars, sortVars, filterVars, raceVars>>
    \/ Finish /\ UNCHANGED <<dedupeVars, getVars, classVars, sourceVars, chunkVars, sortVars, filterVars, raceVars>>

Init == PipeInit /\ DedupeIdle /\ GetIdle /\ ClassIdle /\ SourceIdle /\ ChunkIdle /\ SortIdle /\ FilterIdle /\ RaceIdle

FilterNext ==
    FilterCall /\ UNCHANGED <<dedupeVars, getVars, classVars, pipeVars, sourceVars, chunkVars, sortVars, raceVars>>

InitFilter ==
    /\ FilterInit /\ DedupeIdle /\ GetIdle /\ ClassIdle /\ PipeIdle /\ SourceIdle /\ ChunkIdle /\ RaceIdle
    /\ SortIdle /\ RaceIdle

SpecFilter == InitFilter /\ [][FilterNext]_vars

RaceNext ==
    \/ \E r \in Runs : RaceLoad(r) /\ UNCHANGED <<dedupeVars, getVars, classVars, pipeVars, sourceVars, chunkVars, sortVars, filterVars>>
    \/ \E r \in Runs : RaceSave(r) /\ UNCHANGED <<dedupeVars, getVars, classVars, pipeVars, sourceVars, chunkVars, sortVars, filterVars>>

InitRace ==
    /\ RaceInit /\ DedupeIdle /\ GetIdle /\ ClassIdle /\ PipeIdle /\ SourceIdle /\ ChunkIdle
    /\ SortIdle /\ FilterIdle

SpecRace == InitRace /\ [][RaceNext]_vars

\* one item through an extractor, or one source through an extractor, or
\* one call of dedupe_and_new_only
LinksNext == ClassNext \/ SourceNext \/ DedupeNext

InitLinks == InitClassify \/ InitSource \/ InitDedupe

SpecLinks == InitLinks /\ [][LinksNext]_vars

Spec == Init /\ [][Next]_vars

(***************************************************************************)
(* Properties of dedupe_and_new_only.                                      *)
(***************************************************************************)
\* index of the first candidate whose link is l
FirstWithLink(cands, l) ==
    CHOOSE i \in 1..Len(cands) :
        cands[i].lien = l /\ \A j \in 1..(i - 1) : cands[j].lien # l

OnePerLink ==
    \A i, j \in 1..Len(nouveaux) :
        nouveaux[i].lien = nouveaux[j].lien => i = j

FirstCarrier ==
    \A k \in 1..Len(nouveaux) :
        /\ \E i \in 1..Len(offres) : offres[i].lien = nouveaux[k].lien
        /\ offres[FirstWithLink(offres, nouveaux[k].lien)] = nouveaux[k]

KeepsOrder ==
    \A k, m \in 1..Len(nouveaux) :
        k < m => FirstWithLink(offres, nouveaux[k].lien)
                     < FirstWithLink(offres, nouveaux[m].lien)

\* C1 as stated: at most one posting per distinct link, the first candidate
\* carrying it, in candidate order; with an empty seen set exactly one
\* posting for every distinct link of the candidates.
C1_AsStated ==
    dpc = "ret" =>
        /\ OnePerLink
        /\ FirstCarrier
        /\ KeepsOrder
        /\ seen_arg = {} =>
               \A l \in {offres[i].lien : i \in 1..Len(offres)} :
                   Cardinality({k \in 1..Len(nouveaux) : nouveaux[k].lien = l}) = 1

\* C1 (amended): at most one posting per distinct link, the first candidate
\* carrying it, in candidate order; with an empty seen set exactly one
\* posting for every distinct non-empty stripped link of the candidates, and
\* none whose stripped link is empty.
C1_Dedupe ==
    dpc = "ret" =>
        /\ OnePerLink
        /\ FirstCarrier
        /\ KeepsOrder
        /\ seen_arg = {} =>
               \A key \in {Strip(offres[i].lien) : i \in 1..Len(offres)} :
                   Cardinality({k \in 1..Len(nouveaux) : Strip(nouveaux[k].lien) = key})
                       = IF key = <<>> THEN 0 ELSE 1

\* Three candidates, two with the same link and different titles, an empty
\* seen set: the duplicate is gone and two postings are left.
C1_Witness ==
    /\ dpc = "ret"
    /\ seen_arg = {}
    /\ Len(offres) = 3
    /\ Len(nouveaux) = 2
    /\ \E i, j \in 1..3 : i < j /\ offres[i].lien = offres[j].lien
                                /\ offres[i].titre # offres[j].titre

\* C2 as stated: no posting of the result has its link in the seen set, and
\* every candidate that is the first with its link, the link not in the seen
\* set, is in the result.
C2_AsStated ==
    dpc = "ret" =>
        /\ \A k \in 1..Len(nouveaux) : nouveaux[k].lien \notin seen_arg
        /\ \A i \in 1..Len(offres) :
               ( /\ \A j \in 1..(i - 1) : offres[j].lien # offres[i].lien
                 /\ offres[i].lien \notin seen_arg )
               => \E k \in 1..Len(nouveaux) : nouveaux[k] = offres[i]

\* C2 (amended): no posting of the result has its stripped link in the seen
\* set, and every candidate that is the first with its stripped link, that
\* stripped link non-empty and not in the seen set, is in the result.
C2_NewOnly ==
    dpc = "ret" =>
        /\ \A k \in 1..Len(nouveaux) : Strip(nouveaux[k].lien) \notin seen_arg
        /\ \A i \in 1..Len(offres) :
               ( /\ \A j \in 1..(i - 1) : Strip(offres[j].lien) # Strip(offres[i].lien)
                 /\ Strip(offres[i].lien) # <<>>
                 /\ Strip(offres[i].lien) \notin seen_arg )
               => \E k \in 1..Len(nouveaux) : nouveaux[k] = offres[i]

\* A seen link and a new link among the candidates: the first is dropped,
\* the second is returned.
C2_Witness ==
    /\ dpc = "ret"
    /\ seen_arg = {LinkA}
    /\ \E i \in 1..Len(offres) : offres[i].lien = LinkA
    /\ \E k \in 1..Len(nouveaux) : nouveaux[k].lien = LinkB
    /\ Len(nouveaux) = 1

(***************************************************************************)
(* Properties of safe_get.                                                 *)
(***************************************************************************)
GetDone == gpc \in {"returned", "raised"}

\* C8: at most max_retries GETs are made, none after the first one that
\* returns a 2xx response, and that response is what safe_get returns.
C8_BoundedAttempts ==
    /\ Len(gets) <= max_retries
    /\ \A i \in 1..Len(gets) :
           Is2xx(gets[i]) =>
               /\ i = Len(gets)
               /\ gpc = "returned"
               /\ resp = [attempt |-> i, status |-> gets[i].status]

\* Two failed attempts, then a 2xx on the third, which is returned.
C8_Witness ==
    /\ gpc = "returned"
    /\ max_retries = 3
    /\ Len(gets) = 3
    /\ ~Is2xx(gets[1]) /\ ~Is2xx(gets[2]) /\ Is2xx(gets[3])
    /\ resp.attempt = 3

\* C9 as stated: once safe_get is over with every attempt failed (a non-2xx
\* status or a transport exception), it has raised the error of the last
\* attempt, whatever max_retries is, 0 included.
C9_AsStated ==
    (GetDone /\ \A i \in 1..Len(gets) : ~Is2xx(gets[i])) =>
        /\ gpc = "raised"
        /\ Len(gets) >= 1
        /\ raised = ErrOf(Len(gets), gets[Len(gets)])

\* C9 (amended): once safe_get is over with every attempt failed (a 4xx or
\* 5xx status or a transport exception), it has raised: for max_retries >= 1
\* the error of attempt max_retries, the last one; for max_retries = 0 no
\* attempt was made and it raised the TypeError of `raise None`.
C9_RaisesLastError ==
    (GetDone /\ \A i \in 1..Len(gets) : AttemptFails(gets[i])) =>
        /\ gpc = "raised"
        /\ Len(gets) = max_retries
        /\ raised = IF max_retries >= 1
                    THEN ErrOf(max_retries, gets[max_retries])
                    ELSE TypeErrorNone

\* Three attempts, a transport exception, a 404 and a 503: the 503's
\* HTTPError is raised.
C9_Witness ==
    /\ gpc = "raised"
    /\ max_retries = 3
    /\ gets[1].kind = "exception"
    /\ gets[2].status = 404
    /\ gets[3].status = 503
    /\ raised = [type |-> "HTTPError", attempt |-> 3, status |-> 503]

\* C10 as stated: failed attempt k is followed by a sleep of 1.5 x k seconds
\* only when another attempt follows, so that after max_retries failed
\* attempts there were max_retries - 1 sleeps.
C10_AsStated ==
    /\ \A k \in 1..Len(sleeps) : sleeps[k] = 15 * k
    /\ (gpc = "raised" /\ max_retries >= 1) => Len(sleeps) = max_retries - 1

(***************************************************************************)
(* Properties of the relevance rules of the two extractors.                *)
(***************************************************************************)
\* the text the rules are about: title + description, + location for markup
ItemText == 
    IF kind = "rss" THEN item.title \o item.desc
    ELSE item.title \o item.desc \o item.lieu

TextHas(terms) == \E i \in 1..Len(ItemText) : LowerWord(ItemText[i]) \in terms

\* the item got as far as the rules: a feed entry with a link, a node whose
\* extraction did not raise
Classified == cpc = "done" /\ verdict.why \notin {"no_link", "exception"}

SourceNameAllowed ==
    source.nom # <<>> /\ LowerWord(Head(source.nom)) \in SourcePrefixes

Ranked == pc \in {"archive", "mark", "telegram", "end"}
Saved == pc \in {"telegram", "end"}

NewLinks == {nouvelles[i].lien : i \in 1..Len(nouvelles)}

C4_AsStated ==
    Saved => loaded \subseteq _load_seen(seen_file)

SourceDone == xpc = "done"

\* the extractor ended on a failed GET: the source is downgraded to an
\* empty result
Downgraded == SourceDone /\ gets # <<>> /\ AttemptFails(gets[Len(gets)])

\* C11 as stated: a source of either kind is downgraded to an empty result
\* only after max_retries GETs have failed, never after a single one.
C11_AsStated ==
    Downgraded =>
        /\ Len(gets) = DefaultMaxRetries
        /\ \A i \in 1..Len(gets) : AttemptFails(gets[i])
        /\ xoffres = <<>>

\* the postings of the verdicts that accept, in order
RECURSIVE KeptOf(_)
KeptOf(verdicts) ==
    IF verdicts = <<>> THEN <<>>
    ELSE IF Head(verdicts).kept THEN <<Head(verdicts).offre>> \o KeptOf(Tail(verdicts))
    ELSE KeptOf(Tail(verdicts))

\* the markup extractor got its page and went through the nodes
NodesProcessed == SourceDone /\ xkind = "html" /\ gpc = "returned" /\ resp.status = 200

\* C13: in the markup extractor a node whose extraction raises is skipped
\* and nothing else: the returned list holds, in order, the posting of
\* every node among the first 30 that does not raise and that the
\* relevance rules accept, and no other posting.
C13_NodeIsolation ==
    NodesProcessed =>
        LET n == IF Len(xitems) < NodeCap THEN Len(xitems) ELSE NodeCap
        IN  xoffres = KeptOf([i \in 1..n |-> HtmlItem(xsrc, xitems[i])])

\* A node without an href between two nodes that are accepted: both are
\* returned.
C13_Witness ==
    /\ NodesProcessed
    /\ Len(xitems) = 3
    /\ HtmlItem(xsrc, xitems[1]).kept
    /\ xitems[2] = NodeNoHref
    /\ HtmlItem(xsrc, xitems[3]).kept
    /\ Len(xoffres) = 2
    /\ xoffres[2] = HtmlItem(xsrc, xitems[3]).offre

\* The page of 31 nodes: the second raises, the first is returned and the
\* thirty-first, past the cap, is not.
C13_CapWitness ==
    /\ NodesProcessed
    /\ xitems = LongPage
    /\ xsrc = SrcOsce
    /\ Len(xoffres) = 1

(***************************************************************************)
(* Properties of the runs: failures of sources, of the archive and of the  *)
(* notification.                                                           *)
(***************************************************************************)
Extracted == pc \in {"rank", "archive", "mark", "telegram", "end"}

\* the URLs of the registry, feeds first
RegistryOrder ==
    [i \in 1..Len(RssUrls) |-> RssUrls[i].url] \o [i \in 1..Len(SourcesHtml) |-> SourcesHtml[i].url]

\* a feed fails as a whole when it cannot be fetched or when an exception
\* is raised while one of its entries is processed
FeedFails(page) ==
    ~page.up \/ \E i \in 1..Len(page.items) : RssItem(page.items[i]).why = "exception"

\* the postings that the run collected from the source of that name
FromSource(nom) == {i \in 1..Len(toutes) : toutes[i].organisation = nom}

\* C12 as stated: a source that fails as a whole (fetch error, non-2xx, an
\* exception raised at any point while it is processed) contributes no
\* posting to the run, and the run goes through every source once, in
\* registry order, and on to the ranking.
C12_AsStated ==
    Extracted =>
        /\ visited = RegistryOrder
        /\ \A i \in 1..Len(RssUrls) :
               FeedFails(world.rss[i]) => FromSource(<<"RSS">>) = {}
        /\ \A i \in 1..Len(SourcesHtml) :
               ~world.html[i].up => FromSource(SourcesHtml[i].nom) = {}

\* C14: when send_telegram is called the archive write and the seen-store
\* write of the run have both been made, and whatever becomes of the
\* notification (an error status, an exception, credentials missing) the
\* archive of the day and the seen store are, at the end of the run, as
\* those writes left them.
C14_WritesSurviveNotification ==
    pc \in {"telegram", "end"} =>
        /\ archived = 1
        /\ saves = 1
        /\ archive_outcome = "ok" => archive = ArchiveRecord(nouvelles)
        /\ save_outcome = "ok" => seen_file = FileArray(written)

\* A run with something new whose notification raised: the record and the
\* seen store are written.
C14_Witness ==
    /\ pc = "end"
    /\ nouvelles # <<>>
    /\ deliveries = <<"exception">>
    /\ archive = ArchiveRecord(nouvelles)
    /\ seen_file = FileArray(loaded \cup NewLinks)

\* a run that reached the notification without its credentials
C14_WitnessNoCredentials ==
    /\ pc = "end"
    /\ env.token = ""
    /\ posts = <<>>
    /\ archive = ArchiveRecord(nouvelles)
    /\ save_outcome = "ok"

\* C15 as stated: every run writes the dated record exactly once, also when
\* nothing is new; its total is the length of its posting list, which is
\* the run's ranked list of new postings.
C15_AsStated ==
    pc \in {"mark", "telegram", "end"} =>
        /\ archived = 1
        /\ archive.written
        /\ archive.total = Len(archive.offres)
        /\ archive.offres = nouvelles

\* what save_of_day does do: it is called exactly once in every run, after
\* the ranking, also when nothing is new; a write that succeeds leaves the
\* run's ranked list of new postings with its length as the total; a write
\* that raises leaves no record, and the run goes on.
ArchiveOnce ==
    /\ pc \in {"rss", "html", "rank", "archive"} => archived = 0
    /\ pc \in {"mark", "telegram", "end"} =>
           /\ archived = 1
           /\ archive_outcome \in {"ok", "failed"}
           /\ archive_outcome = "ok" =>
                  /\ archive.written
                  /\ archive.total = Len(archive.offres)
                  /\ archive.offres = nouvelles
           /\ archive_outcome = "failed" => ~archive.written

\* a run that found postings, none of them new: the record is written,
\* with a total of 0
ArchiveOfNothingNew ==
    /\ pc = "end"
    /\ toutes # <<>>
    /\ nouvelles = <<>>
    /\ archive.written
    /\ archive.total = 0
    /\ archive.offres = <<>>

\* C16 as stated: a run whose archive write failed does not complete
\* normally; a run in which only sources or the notification failed does.
C16_AsStated ==
    pc = "end" => archive_outcome = "ok"

(***************************************************************************)
(* Properties of chunk_telegram.                                           *)
(***************************************************************************)
ChunkDone == kpc = "ret"

PartLens == [k \in 1..Len(parts) |-> Len(parts[k])]

\* the positions of the text after which a part ends
Cuts == {Sum(SubSeq(PartLens, 1, k)) : k \in 0..Len(parts)}

\* no part ends inside a line of the text
CutsAtLineEnds ==
    \A c \in Cuts : c = 0 \/ c >= Len(chunk_text) \/ EndsLine(chunk_text, c)

\* the part is one line
OneLine(part) == \A i \in 1..(Len(part) - 1) : ~EndsLine(part, i)

\* C17 as stated: for every text and every limit >= 1 each part has at most
\* limit characters and every part ends at a line boundary of the text.
C17_AsStated ==
    (ChunkDone /\ limit >= 1) =>
        /\ \A k \in 1..Len(parts) : Len(parts[k]) <= limit
        /\ CutsAtLineEnds

\* C17 (amended): for every text and every limit >= 1 every part ends at a
\* line boundary of the text, and each part has at most limit characters
\* unless it is a single line that is longer than limit.
C17_PartsWithinLimit ==
    (ChunkDone /\ limit >= 1) =>
        /\ \A k \in 1..Len(parts) : Len(parts[k]) <= limit \/ OneLine(parts[k])
        /\ CutsAtLineEnds

\* Three lines under a limit of 3: the first two fill a part, the third is
\* the second part.
C17_Witness ==
    /\ ChunkDone
    /\ limit = 3
    /\ chunk_text = <<"x", "\n", "\n", "x", "\n">>
    /\ parts = << <<"x", "\n", "\n">>, <<"x", "\n">> >>

\* C18: for every text and every limit the parts, concatenated in order,
\* are the text.
C18_Concatenation ==
    ChunkDone => Join(parts) = chunk_text

\* A text with "\r\n" and a last line without terminator, cut in three.
C18_Witness ==
    /\ ChunkDone
    /\ limit = 2
    /\ chunk_text = <<"x", "\n", "\r", "\n", "x">>
    /\ Len(parts) = 3
    /\ Join(parts) = chunk_text

\* a payload of the claim: 5000 characters, no line longer than 4096, cut
\* at 4096
ClaimPayload ==
    /\ ChunkDone
    /\ Len(chunk_text) = 5000
    /\ limit = TelegramLimit
    /\ LET ls == splitlines(chunk_text)
       IN  \A i \in 1..Len(ls) : Len(ls[i]) <= TelegramLimit

\* C19 as stated: such a payload is cut in exactly 2 parts, whatever the
\* lengths of its lines.
C19_AsStated ==
    ClaimPayload => Len(parts) = 2

\* C19 (amended): such a payload is cut in 2 or 3 parts, each of at most
\* 4096 characters; lines of 900, 3200 and 900 characters give 3 parts.
C19_TwoOrThreeParts ==
    ClaimPayload =>
        /\ Len(parts) \in {2, 3}
        /\ \A k \in 1..Len(parts) : Len(parts[k]) <= TelegramLimit

\* The payload of three lines of 900, 3200 and 900 characters: three parts.
C19_Witness ==
    /\ ClaimPayload
    /\ chunk_text = LineOf(900) \o LineOf(3200) \o LineOf(900)
    /\ Len(parts) = 3

\* five lines of 1000 characters: two parts, of 4000 and 1000
C19_WitnessTwoParts ==
    /\ ClaimPayload
    /\ PartLens = <<4000, 1000>>

(***************************************************************************)
(* Properties of sort_prioritaires_first.                                  *)
(***************************************************************************)
SortDone == spc = "ret"

IsPriority(o) == is_prioritaire(o.titre \o o.description)

SameKeys(o1, o2) ==
    /\ IsPriority(o1) = IsPriority(o2)
    /\ o1.organisation = o2.organisation
    /\ o1.titre = o2.titre

\* o1 may stand before o2 in the ranking
InOrder(o1, o2) ==
    /\ IsPriority(o2) => IsPriority(o1)
    /\ IsPriority(o1) = IsPriority(o2) => ~StrLess(o2.organisation, o1.organisation)
    /\ (IsPriority(o1) = IsPriority(o2) /\ o1.organisation = o2.organisation)
           => ~StrLess(o2.titre, o1.titre)

Perms(n) == {p \in [1..n -> 1..n] : \A i, j \in 1..n : p[i] = p[j] => i = j}

\* C20: the result is a permutation of the input in which every priority
\* posting stands before every other posting, postings of equal priority
\* are in the order of their organisations and then of their titles, and
\* postings equal on the three keys are in their input order.
C20_StableRanking ==
    SortDone =>
        /\ Len(sort_out) = Len(sort_in)
        /\ \E p \in Perms(Len(sort_in)) :
               /\ \A i \in 1..Len(sort_in) : sort_out[i] = sort_in[p[i]]
               /\ \A i, j \in 1..Len(sort_in) :
                      i < j =>
                          /\ InOrder(sort_out[i], sort_out[j])
                          /\ SameKeys(sort_out[i], sort_out[j]) => p[i] < p[j]

\* The example of the claim: Zeta, Alpha with a priority term, Beta are
\* ranked Alpha, Beta, Zeta.
C20_Witness ==
    /\ SortDone
    /\ sort_in = <<Posting(<<"Zeta">>, <<"Stage">>, <<>>, LinkA, <<>>),
                   Posting(<<"Alpha">>, <<"Stage">>, <<>>, LinkA, <<"iran">>),
                   Posting(<<"Beta">>, <<"Stage">>, <<>>, LinkA, <<>>)>>
    /\ sort_out = <<sort_in[2], sort_in[3], sort_in[1]>>

\* two postings equal on the three keys, with different links, after a
\* posting that sorts behind them: they keep their input order
C20_WitnessStable ==
    /\ SortDone
    /\ Len(sort_in) = 3
    /\ SameKeys(sort_in[2], sort_in[3])
    /\ sort_in[2].lien = LinkB
    /\ sort_in[3].lien = LinkA
    /\ sort_out = <<sort_in[2], sort_in[3], sort_in[1]>>

(***************************************************************************)
(* C21.  Priority and the result list.                                     *)
(***************************************************************************)
FilterDone == fpc = "ret"

InResult(result, o) == \E k \in 1..Len(result) : result[k] = o

ProbeKept == InResult(result_plain, cands_plain[probe])

TwinKept == InResult(result_twin, Twin(cands_plain[probe]))

\* C21, as stated: in both scripts, a posting and its twin, which differ
\* only in that the twin matches the priority terms, are both in the result
\* list of the run or both out of it.
C21_AsStated == FilterDone => (ProbeKept <=> TwinKept)

\* The same for veille-complete.py alone: deduplication and ranking keep a
\* posting and its twin alike.
MembershipIgnoresPriority ==
    FilterDone /\ script = "veille-complete" => (ProbeKept <=> TwinKept)

\* veille-stages.py: the twenty-first ordinary posting is cut, its twin kept
TwinOnlyKept ==
    /\ FilterDone
    /\ script = "veille-stages"
    /\ TwinKept
    /\ ~ProbeKept
    /\ Len(SelectSeq(cands_plain, est_offre_pertinente)) = NonPriorityCap + 1

\* veille-complete.py: a posting is new, and so is its twin, ranked first
TwinRankedFirst ==
    /\ FilterDone
    /\ script = "veille-complete"
    /\ Len(result_plain) = 2
    /\ ProbeKept
    /\ result_twin[1] = Twin(cands_plain[probe])
    /\ result_plain[1] # cands_plain[probe]

(***************************************************************************)
(* C22.  dedupe_and_new_only has no side effects.                          *)
(***************************************************************************)
DedupeReturns == dpc' # dpc /\ dpc' \in {"ret", "ret2", "rerun"}

StoreOfLinks(f) == f.kind = "array" /\ NumItem \notin f.items

\* the constructor has just returned: the file is the one that was loaded
JustLoaded == pc = "rss"

\* C23, as stated: _load_seen returns the stored links when the file holds
\* a JSON array of link strings, and the empty set for a missing file and
\* for every other content.
C23_AsStated ==
    JustLoaded => loaded = (IF StoreOfLinks(seen_file) THEN seen_file.items ELSE {})

\* _load_seen never raises: the constructor returns for every content
LoadReturns == [](pc = "new" => ENABLED Construct)

\* a JSON object is loaded as the set of its keys
ObjectLoadedAsKeys ==
    JustLoaded /\ seen_file.kind = "object" /\ loaded = {LinkB}

\* an array with a number in it is loaded with the number
NumberLoaded ==
    JustLoaded /\ seen_file.kind = "array" /\ NumItem \in loaded

(***************************************************************************)
(* C24.  send_telegram without credentials.                                *)
(***************************************************************************)
Notified == pc = "end"

\* C24: when the bot token or the chat identifier is absent, send_telegram
\* returns without a single POST, whether or not there are new postings.
C24_NoPostWithoutCredentials ==
    Notified /\ (env.token = "" \/ env.chat_id = "") => posts = <<>> /\ deliveries = <<>>

\* new postings, a token, no chat identifier, and nothing posted
C24_Witness ==
    /\ Notified
    /\ env.token # ""
    /\ env.chat_id = ""
    /\ nouvelles # <<>>
    /\ posts = <<>>

\* nothing new, no token, and nothing posted
C24_WitnessNothingNew ==
    /\ Notified
    /\ env.token = ""
    /\ nouvelles = <<>>
    /\ posts = <<>>

(***************************************************************************)
(* C25.  One run on one markup source with three nodes.                    *)
(***************************************************************************)
\* the first markup source has three nodes with distinct links, of which
\* the first and the third match a keyword and a zone; the other sources
\* have nothing; the seen set loaded by the run is empty
Scenario ==
    /\ world.html[1] = Page(<<NodeA, NodeOff, NodeC>>)
    /\ world.html[2] = Page(<<>>)
    /\ world.rss[1].items = <<>>
    /\ loaded = {}

ScenarioLinks == {UrlJoin(SrcOsce.url, LinkA), UrlJoin(SrcOsce.url, <<"c">>)}

LinksOf(offs) == {offs[i].lien : i \in 1..Len(offs)}

\* one GET for the source, two postings classified, two new, two links in
\* the seen set of the run
ScenarioCounts ==
    /\ visited[2] = SrcOsce.url
    /\ fetches[2] = 1
    /\ Len(toutes) = 2
    /\ Len(nouvelles) = 2
    /\ LinksOf(nouvelles) = ScenarioLinks
    /\ seen = ScenarioLinks

ScenarioArchive == archive.written /\ archive.total = 2

ScenarioStore == seen_file = FileArray(ScenarioLinks)

ScenarioNotification ==
    /\ Len(posts) = 1
    /\ posts[1].type = "listing"
    /\ {posts[1].liens[i] : i \in 1..Len(posts[1].liens)} = ScenarioLinks

ScenarioWithoutCredentials == Notified /\ Scenario /\ MissingCredentials(env) /\ posts = <<>>

(***************************************************************************)
(* C26.  Two runs side by side.                                            *)
(***************************************************************************)
BothDone == \A r \in Runs : rpc[r] = "done"

\* the store lacks a link that one of the two runs added
LinkLost ==
    \E r \in Runs : \E l \in radded[r] : ~(rfile.kind = "array" /\ l \in rfile.items)

LostUpdate ==
    /\ BothDone
    /\ overlap
    /\ rwrites_ok
    /\ radded[1] = {LinkA}
    /\ radded[2] = {LinkB}
    /\ rfile = FileArray({LinkB})

(***************************************************************************)
(* C27.  No posting without a link.                                        *)
(***************************************************************************)
AllLinked(offs) == \A i \in 1..Len(offs) : offs[i].lien # <<>>

\* C27: every posting that an extractor returns and every posting that
\* dedupe_and_new_only returns has a link that is not empty, and a feed
\* entry whose link is empty is dropped for its link, whatever its text.
C27_NonEmptyLinks ==
    /\ SourceDone => AllLinked(xoffres)
    /\ cpc = "done" /\ verdict.kept => verdict.offre.lien # <<>>
    /\ dpc \in {"ret", "ret2", "rerun"} => AllLinked(nouveaux) /\ AllLinked(nouveaux2)
    /\ cpc = "done" /\ kind = "rss" /\ Strip(item.link.val) = <<>> => verdict = Skip("no_link")

\* a feed of three entries, the second without a link and with a text that
\* passes the classifier: the other two are returned
C27_Witness ==
    /\ SourceDone
    /\ xkind = "rss"
    /\ xitems = <<EntryA, EntryNoLink, EntryB>>
    /\ match_keywords(EntryNoLink.title \o EntryNoLink.desc)
    /\ match_duree(EntryNoLink.title \o EntryNoLink.desc)
    /\ Len(xoffres) = 2

\* a node without a link element is returned with the URL of its source
C27_WitnessNode ==
    /\ SourceDone
    /\ xkind = "html"
    /\ xitems = <<NodeBare>>
    /\ Len(xoffres) = 1
    /\ xoffres[1].lien = xsrc.url

\* candidates with an empty and with a blank link, beside one that is new
C27_WitnessDedupe ==
    /\ dpc = "ret"
    /\ Len(offres) = 3
    /\ offres[1].lien = <<>>
    /\ offres[2].lien = <<" ">>
    /\ Len(nouveaux) = 1

(***************************************************************************)
(* C28.  The key that is looked up and the string that is stored.          *)
(***************************************************************************)
NextRunDone == dpc = "rerun"

\* C28, as stated: for every posting reported as new, the string added to
\* the seen set is the key that dedupe_and_new_only looks up, so the call
\* of the next run does not report the posting again, padded link or not.
C28_AsStated ==
    /\ dpc \in {"marked", "rerun"} =>
           \A k \in 1..Len(nouveaux) : DedupeKey(nouveaux[k]) \in seen_arg
    /\ NextRunDone => \A k \in 1..Len(nouveaux) : ~InResult(nouveaux2, nouveaux[k])

\* a posting with a padded link is stored padded, looked up stripped, and
\* reported by the next run again
PaddedReportedAgain ==
    /\ NextRunDone
    /\ Len(offres) = 1
    /\ offres[1].lien = <<" ", "a">>
    /\ seen_arg = {<<" ", "a">>}
    /\ nouveaux = offres
    /\ nouveaux2 = offres

\* postings whose links carry no whitespace are stored under their key
StrippedRecognised ==
    NextRunDone =>
        \A k \in 1..Len(nouveaux) :
            nouveaux[k].lien = Strip(nouveaux[k].lien) => ~InResult(nouveaux2, nouveaux[k])

\* the postings of a run of the script come from the extractors, which
\* strip the links they read (lines 491, 542)
RunLinksStripped == \A i \in 1..Len(toutes) : toutes[i].lien = Strip(toutes[i].lien)

(***************************************************************************)
(* C29.  Empty parts.                                                      *)
(***************************************************************************)
\* C29, as stated: for every text that is not empty and every limit >= 1,
\* no part of the result is empty, also when the first line is longer than
\* the limit.
C29_AsStated ==
    (ChunkDone /\ chunk_text # <<>> /\ limit >= 1) =>
        \A k \in 1..Len(parts) : parts[k] # <<>>

\* a first line of five characters under a limit of 3: the first part is
\* empty and the line is the second part
EmptyFirstPart ==
    /\ ChunkDone
    /\ limit = 3
    /\ chunk_text = <<"x", "x", "x", "x", "\n">>
    /\ parts = << <<>>, chunk_text >>

\* no part but the first is ever empty, and the first is empty only when
\* the first line is longer than the limit
EmptyPartOnlyFirst ==
    (ChunkDone /\ limit >= 1) =>
        /\ \A k \in 2..Len(parts) : parts[k] # <<>>
        /\ (parts # <<>> /\ parts[1] = <<>>) => Len(splitlines(chunk_text)[1]) > limit

(***************************************************************************)
(* C30.  Nodes without a link.                                             *)
(***************************************************************************)
Extracted2 == pc \in {"rank", "archive", "mark", "telegram", "end"}

\* the nodes of the i-th markup source that the loop goes through
NodesOf(i) == IF world.html[i].up THEN Capped(world.html[i].items) ELSE <<>>

\* the link selector finds no element, or an element whose href is blank
NoLinkFound(node) ==
    \/ node.link.tag = "none"
    \/ node.link.tag = "href" /\ Strip(node.link.val) = <<>>

\* the link selector finds an element that has no href attribute
NoHrefAttribute(node) == node.link.tag = "nohref"

\* the text of the node passes the classifier of the markup extractor
TextPasses(src, node) ==
    LET blob == node.title \o node.desc \o node.lieu
    IN  /\ match_keywords(blob)
        /\ match_zone(blob) \/ match_duree(blob) \/ HtmlSourceRelevant(src, blob)

\* the node is among the postings of the run, with the source URL as link
HasSourceUrl(src, node) ==
    \E k \in 1..Len(toutes) :
        /\ toutes[k].organisation = src.nom
        /\ toutes[k].titre = node.title
        /\ toutes[k].description = node.desc
        /\ toutes[k].lien = src.url

SourceUrls == {SourcesHtml[i].url : i \in 1..Len(SourcesHtml)}

\* the new postings of the run that carry the URL of their source
NewWithSourceUrl(url) == {k \in 1..Len(nouvelles) : nouvelles[k].lien = url}

C30_WitnessLaterRun ==
    /\ Notified
    /\ writes_ok
    /\ SrcIfri.url \in ever_new
    /\ SrcIfri.url \in loaded
    /\ HasSourceUrl(SrcIfri, NodeBare)
    /\ HasSourceUrl(SrcIfri, NodeBlank)
    /\ NewWithSourceUrl(SrcIfri.url) = {}

\* a later run after a write that failed: the posting is new once more
LinkLessNewAgain ==
    /\ Notified
    /\ SrcIfri.url \in ever_new
    /\ NewWithSourceUrl(SrcIfri.url) # {}
====
